---- MODULE Spec2Model ----
(***************************************************************************)
(* One invocation of mtx-changer-python.py: the dispatcher, the volume     *)
(* resolution, load / unload / transfer, the readiness poll and the        *)
(* drive check with its cleaning cycle.  Every external command the script *)
(* runs (mtx, mt, ls, lsscsi, tapeinfo) is one step whose exit code and    *)
(* output are chosen by the environment; the commands issued are recorded  *)
(* in `trace`, what is printed in `stdout`.                                *)
(*                                                                         *)
(* Not modelled: docopt / config-file parsing, log(), get_ready_str().     *)
(***************************************************************************)
EXTENDS Integers, Sequences, FiniteSets, TLC

VARIABLES
    \* configuration file values (lines 797-815)
    auto_clean, chk_drive, include_import_export, inventory, offline,
    vxa_packetloader, load_wait, load_sleep, offline_sleep, clean_wait, cln_str,
    \* command line (lines 819-823)
    mtx_cmd, slot, drive_device, drive_index,
    \* the run
    pc,          \* the external command the script is about to run, or "start" / "done"
    stage,       \* "getvolname": inside do_getvolname's do_listall; "command": inside the handler
    status_out,  \* stdout of the last successful `mtx status`
    all_slots,   \* global all_slots: do_listall's result kept by do_getvolname
    volume,      \* global volume: do_getvolname's result
    cln_tapes,   \* do_checkdrive's local cln_tapes
    cln_tuple,   \* do_clean's random.choice
    sg,          \* do_get_sg_node's result: "" not called, "1" unresolved, else the node
    tapealerts,  \* do_checkdrive's tapealerts: (code, text) of the TapeAlert lines
    frame,       \* arguments of the running do_load / do_unload call
    s,           \* do_wait_for_drive's counter
    wait_ret,    \* do_wait_for_drive's return value, -1 before it returns
    trace,       \* external commands and sleeps, in order
    stdout,      \* lines printed
    exit_code,   \* process exit code, -1 while running
    crashed      \* the run ended in an uncaught Python exception

config  == <<auto_clean, chk_drive, include_import_export, inventory, offline,
             vxa_packetloader, load_wait, load_sleep, offline_sleep, clean_wait, cln_str>>
request == <<mtx_cmd, slot, drive_device, drive_index>>
run     == <<pc, stage, status_out, all_slots, volume, cln_tapes, cln_tuple, sg,
             tapealerts, frame, s, wait_ret, trace, stdout, exit_code, crashed>>
vars    == <<config, request, run>>

(***************************************************************************)
(* Bounds of the model.                                                    *)
(***************************************************************************)
MaxLoadWait == 1

\* exit codes an external command may return
RCs == {0, 2}

Drives       == {0, 1}
StorageSlots == {1, 12}
IESlots      == {3}
AllSlotNums  == StorageSlots \cup IESlots

\* drive_index values of a loaded request: the drives, and one the dump does not list
LoadedArgs == Drives \cup {Cardinality(Drives)}

\* Volume labels are sequences of characters; '' is <<>>.
LabelOf(n) == CASE n = 1  -> <<"C", "1">>
                [] n = 12 -> <<"V", "C">>
                [] n = 3  -> <<"C", "3">>
                [] OTHER  -> <<"V">>

\* Where the tape whose home is slot n sits: -1 nowhere (slot empty), -2 in its
\* slot, d >= 0 in drive d.  The import/export tape is never in a drive.
Layouts == { l \in [AllSlotNums -> {-1, -2} \cup Drives] :
               /\ \A a, b \in AllSlotNums : (a # b /\ l[a] >= 0) => l[a] # l[b]
               /\ \A a \in IESlots : l[a] < 0 }

Elem(k, n, f, src, vol) == [k |-> k, n |-> n, f |-> f, src |-> src, vol |-> vol]

DriveElem(l, d) ==
    IF \E n \in AllSlotNums : l[n] = d
    THEN LET n == CHOOSE n \in AllSlotNums : l[n] = d
         IN  Elem("D", d, TRUE, n, LabelOf(n))
    ELSE Elem("D", d, FALSE, 0, <<>>)

SlotElem(l, k, n) ==
    IF l[n] = -2 THEN Elem(k, n, TRUE, 0, LabelOf(n)) ELSE Elem(k, n, FALSE, 0, <<>>)

\* The element lines of one `mtx status` dump, in the order the device reports them.
Dump(l) == << DriveElem(l, 0), DriveElem(l, 1),
              SlotElem(l, "S", 1), SlotElem(l, "S", 12), SlotElem(l, "I", 3) >>

DumpSet == { Dump(l) : l \in Layouts }

\* The same lines when the device reports the import/export slot between the
\* storage slots, by element number.
DumpByNumber(l) == << DriveElem(l, 0), DriveElem(l, 1),
                      SlotElem(l, "S", 1), SlotElem(l, "I", 3), SlotElem(l, "S", 12) >>

ListDumpSet == DumpSet \cup { DumpByNumber(l) : l \in Layouts }

\* where the import/export line stands only shows in the list and listall output
StatusDumps(cmd) == IF cmd \in {"list", "listall"} THEN ListDumpSet ELSE DumpSet

\* stdout of `mtx status`: the "Storage Changer ... Drives, n Slots" summary line
\* (summary = -1: no such line) and the element lines
StatusOut(summary, elems) == [summary |-> summary, elems |-> elems]
NoStatus == StatusOut(-1, <<>>)

\* drive_device values: device paths, or (transfer) the destination slot
DevPaths  == {"/dev/nst0", "/dev/tape/by-path/drv-nst", "/dev/nsa0"}
SlotArgs  == {"1", "12", "3"}
IntOf(str) == CASE str = "1" -> 1 [] str = "12" -> 12 [] str = "3" -> 3 [] OTHER -> 0

Commands == {"list", "listall", "slots", "loaded", "load", "unload", "transfer", "bogus"}

\* tapeinfo output: the TapeAlert[code]: text lines
AlertSets == { <<>>,
               << <<"3", "Hard Error">> >>,
               << <<"20", "Clean Now">> >>,
               << <<"3", "Hard Error">>, <<"21", "Clean Periodic">> >> }

(***************************************************************************)
(* Pure helpers.                                                           *)
(***************************************************************************)
Ev(tool, op, slt, idx, dev, rc, secs, cln) ==
    [tool |-> tool, op |-> op, slot |-> slt, idx |-> idx, dev |-> dev,
     rc |-> rc, secs |-> secs, cln |-> cln, match |-> FALSE]

Frame(role, slt, dev, idx, vol, cln) ==
    [role |-> role, slt |-> slt, drv_dev |-> dev, drv_idx |-> idx, vol |-> vol, cln |-> cln]

NoFrame == Frame("", 0, "", 0, <<>>, FALSE)

\* str.startswith, as the regexes '(' + cln_str + '.*)' test it
StartsWith(str, pre) == Len(pre) <= Len(str) /\ SubSeq(str, 1, Len(pre)) = pre

\* the decimal text of a is a prefix of the decimal text of b
RECURSIVE IsDecPrefix(_, _)
IsDecPrefix(a, b) == a = b \/ (b >= 10 /\ IsDecPrefix(a, b \div 10))

\* index of the first element of seq satisfying P, 0 if none (re.search)
FirstIdx(seq, P(_)) ==
    IF \E i \in 1..Len(seq) : P(seq[i])
    THEN CHOOSE i \in 1..Len(seq) : P(seq[i]) /\ \A j \in 1..(i-1) : ~P(seq[j])
    ELSE 0

\* do_listall's token list: drives, then storage slots, then import/export slots
ListAll(out, ie) ==
    SelectSeq(out, LAMBDA e : e.k = "D")
    \o SelectSeq(out, LAMBDA e : e.k = "S")
    \o (IF ie THEN SelectSeq(out, LAMBDA e : e.k = "I") ELSE <<>>)

\* do_listall, lines 386-392: the token an element line is rewritten to
Token(e) ==
    CASE e.k = "D" /\ ~e.f -> <<"D", e.n, "E">>
      [] e.k = "D" /\ e.f  -> <<"D", e.n, "F", e.src, e.vol>>
      [] ~e.f              -> <<e.k, e.n, "E">>
      [] OTHER             -> <<e.k, e.n, "F", e.vol>>

RECURSIVE MapTokens(_)
MapTokens(es) == IF es = <<>> THEN <<>> ELSE <<Token(Head(es))>> \o MapTokens(Tail(es))

\* re.search('[SI]:' + n + ':.:(.*)', all_slots)
SlotVol(toks, n) ==
    LET i == FirstIdx(toks, LAMBDA e : e.k \in {"S", "I"} /\ e.n = n /\ e.f)
    IN  IF i = 0 THEN <<>> ELSE toks[i].vol

\* do_getvolname, after do_listall
GetVolName(cmd, toks, slt, dev, idx) ==
    CASE cmd = "transfer" -> << SlotVol(toks, slt), SlotVol(toks, IntOf(dev)) >>
      [] cmd = "load" ->
            IF FirstIdx(toks, LAMBDA e : e.k \in {"S", "I"} /\ e.n = slt /\ e.f) # 0
            THEN SlotVol(toks, slt)
            ELSE LET i == FirstIdx(toks, LAMBDA e : e.k = "D" /\ e.n = idx /\ e.f)
                 IN  IF i = 0 THEN <<>> ELSE toks[i].vol
      [] cmd = "unload" ->
            LET i == FirstIdx(toks, LAMBDA e : e.k = "D" /\ e.n = idx /\ e.f /\ e.src = slt)
            IN  IF i = 0 THEN <<>> ELSE toks[i].vol
      [] OTHER -> <<>>

\* C1 mutant: the guard forgets the destination
TransferRefused_SourceOnly(vol) == vol[1] = <<>>

\* do_transfer's guard: TRUE when the transfer is refused
TransferRefused(vol) == vol[1] = <<>> \/ vol[2] # <<>>

\* C2 mutant: the label only has to contain cln_str somewhere
IsClnSlot_Contains(e, pre) ==
    e.k \in {"S", "I"} /\ e.f
    /\ \E i \in 1..Len(e.vol) : StartsWith(SubSeq(e.vol, i, Len(e.vol)), pre)

\* chk_for_cln_tapes: (slot, volume) of the cleaning tapes, drives first
IsClnDrive(e, pre) == e.k = "D" /\ e.f /\ StartsWith(e.vol, pre)

IsClnSlot(e, pre) == e.k \in {"S", "I"} /\ e.f /\ StartsWith(e.vol, pre)

RECURSIVE MapTapes(_, _)
MapTapes(toks, drv) ==
    IF toks = <<>> THEN <<>>
    ELSE << << (IF drv THEN Head(toks).src ELSE Head(toks).n), Head(toks).vol >> >>
         \o MapTapes(Tail(toks), drv)

ChkForClnTapes(toks, pre) ==
    MapTapes(SelectSeq(toks, LAMBDA e : IsClnDrive(e, pre)), TRUE)
    \o MapTapes(SelectSeq(toks, LAMBDA e : IsClnSlot(e, pre)), FALSE)

\* do_clean: re.search('^D:(\d+):F:' + cln_slot, all_slots); -1 is None
ClnTapeInDrv(toks, cln_slot) ==
    IF toks # <<>> /\ toks[1].k = "D" /\ toks[1].f /\ IsDecPrefix(cln_slot, toks[1].src)
    THEN toks[1].n
    ELSE -1

\* cln_codes and do_checkdrive's any(cln_code in i for i in tapealerts)
cln_codes == {"20", "21"}
CleanDrive(alerts) ==
    \E c \in cln_codes : \E i \in 1..Len(alerts) :
        c = alerts[i][1] \/ c = alerts[i][2]

\* do_get_sg_node: which branch of the drive_device test is taken
DevBranch(dev) ==
    CASE dev \in {"/dev/nst0"}                 -> "st"
      [] dev \in {"/dev/tape/by-path/drv-nst"} -> "by-path"
      [] OTHER                                 -> "none"

(***************************************************************************)
(* Initial state: the script has read its configuration and arguments.     *)
(***************************************************************************)
Init ==
    /\ auto_clean \in BOOLEAN
    /\ chk_drive \in BOOLEAN
    /\ include_import_export \in BOOLEAN
    /\ inventory \in BOOLEAN
    /\ mtx_cmd \in Commands
    /\ offline \in (IF mtx_cmd = "unload" THEN BOOLEAN ELSE {FALSE})
    /\ vxa_packetloader \in (IF mtx_cmd = "list" THEN BOOLEAN ELSE {FALSE})
    /\ load_wait \in (IF mtx_cmd = "load" THEN 0..MaxLoadWait ELSE {0})
    /\ load_sleep \in (IF mtx_cmd = "load" THEN {0, 1} ELSE {0})
    /\ offline_sleep \in (IF offline THEN {0, 1} ELSE {0})
    /\ clean_wait \in {2}
    /\ cln_str \in {<<"C">>}
    /\ slot \in (IF mtx_cmd = "transfer" THEN AllSlotNums
                 ELSE IF mtx_cmd \in {"load", "unload"} THEN StorageSlots ELSE {1})
    /\ drive_index \in (IF mtx_cmd \in {"load", "unload"} THEN Drives
                        ELSE IF mtx_cmd = "loaded" THEN LoadedArgs ELSE {0})
    /\ drive_device \in (IF mtx_cmd = "transfer" THEN SlotArgs
                         ELSE IF mtx_cmd = "unload" THEN DevPaths ELSE {"/dev/nst0"})
    /\ pc = "start"
    /\ stage = ""
    /\ status_out = NoStatus
    /\ all_slots = <<>>
    /\ volume = <<>>
    /\ cln_tapes = <<>>
    /\ cln_tuple = <<>>
    /\ sg = ""
    /\ tapealerts = <<>>
    /\ frame = NoFrame
    /\ s = 0
    /\ wait_ret = -1
    /\ trace = <<>>
    /\ stdout = <<>>
    /\ exit_code = -1
    /\ crashed = FALSE

(***************************************************************************)
(* Steps.  Each runs the script from one external command to the next.     *)
(***************************************************************************)
Sleep(what, secs) == Ev("sleep", what, 0, 0, "", 0, secs, FALSE)

Out(what, val) == [what |-> what, val |-> val]

\* do_unload's entry: the offline command comes first when offline is set
UnloadEntry == IF offline THEN "offline" ELSE "unload"

\* do_list's text: one (slot, volume) line per element kept
ListLine(e) == IF e.k = "D" THEN <<e.src, e.vol>> ELSE <<e.n, e.vol>>

RECURSIVE MapLines(_)
MapLines(es) == IF es = <<>> THEN <<>> ELSE <<ListLine(Head(es))>> \o MapLines(Tail(es))

DoListText(elems, ie, vxa) ==
    IF vxa THEN <<>>
    ELSE MapLines(SelectSeq(elems, LAMBDA e : e.k = "D" /\ e.f)
                  \o SelectSeq(elems, LAMBDA e : e.k = "S" /\ e.f)
                  \o (IF ie THEN SelectSeq(elems, LAMBDA e : e.k = "I" /\ e.f) ELSE <<>>))

\* C17 mutant: the first Full drive of the dump, whatever its index
DoLoadedText_AnyDrive(elems, idx) ==
    LET i == FirstIdx(elems, LAMBDA e : e.k = "D" /\ e.f)
    IN  IF i = 0 THEN 0 ELSE elems[i].src

\* do_loaded's result (lines 269-280)
DoLoadedText(elems, idx) ==
    LET i == FirstIdx(elems, LAMBDA e : e.k = "D" /\ e.n = idx /\ e.f)
    IN  IF i = 0 THEN 0 ELSE elems[i].src

\* C13 mutant: the status dump is taken without the inventory command
ListEntry_NoInventory(inv) == "status"

\* C30 mutant: do_inventory is called whatever the inventory variable is
ListEntry_AlwaysInventory(inv) == "inventory"

\* do_list, lines 317-319, and do_listall, lines 363-365: the first command
ListEntry(inv) == IF inv THEN "inventory" ELSE "status"

\* C20 mutant: the dispatcher has no final else branch
KnownCommands_Any == Commands

\* the command names the dispatcher's if / elif chain tests (lines 854-868)
KnownCommands == {"list", "listall", "slots", "loaded", "load", "unload", "transfer"}

\* line 849: the commands do_getvolname is called for
NeedsVolume(cmd) == cmd \in {"load", "loaded", "unload", "transfer"}

\* The dispatcher up to the first external command (lines 849-872).
Start ==
    /\ pc = "start"
    /\ IF mtx_cmd \notin KnownCommands
       THEN \* print_opt_errors('command'), then usage(): sys.exit(1)
            /\ stage' = "command"
            /\ pc' = "done"
            /\ stdout' = stdout \o <<Out("invalid command", mtx_cmd), Out("usage", "")>>
            /\ exit_code' = 1
       ELSE /\ stage' = IF NeedsVolume(mtx_cmd) THEN "getvolname" ELSE "command"
            /\ pc' = IF NeedsVolume(mtx_cmd) \/ mtx_cmd \in {"list", "listall"}
                     THEN ListEntry(inventory)
                     ELSE "status"
            /\ UNCHANGED <<stdout, exit_code>>
    /\ UNCHANGED <<config, request, status_out, all_slots, volume, cln_tapes, cln_tuple,
                   sg, tapealerts, frame, s, wait_ret, trace, crashed>>

\* do_inventory
DoInventory(rc) ==
    /\ pc = "inventory"
    /\ trace' = Append(trace, Ev("mtx", "inventory", 0, 0, "", rc, 0, FALSE))
    /\ IF rc # 0
       THEN pc' = "done" /\ exit_code' = rc
       ELSE pc' = "status" /\ UNCHANGED exit_code
    /\ UNCHANGED <<config, request, stage, status_out, all_slots, volume, cln_tapes,
                   cln_tuple, sg, tapealerts, frame, s, wait_ret, stdout, crashed>>

\* `mtx status` inside do_listall called by do_getvolname, then the dispatcher
\* up to the handler's first command
StatusForVolume(rc, out) ==
    /\ pc = "status" /\ stage = "getvolname"
    /\ trace' = Append(trace, Ev("mtx", "status", 0, 0, "", rc, 0, FALSE))
    /\ IF rc # 0
       THEN /\ pc' = "done" /\ exit_code' = rc
            /\ UNCHANGED <<stage, status_out, all_slots, volume, frame>>
       ELSE /\ status_out' = out
            /\ all_slots' = ListAll(out.elems, include_import_export)
            /\ volume' = GetVolName(mtx_cmd, all_slots', slot, drive_device, drive_index)
            /\ CASE mtx_cmd = "load" ->
                     /\ frame' = Frame("req", slot, drive_device, drive_index, volume', FALSE)
                     /\ pc' = "load"
                     /\ UNCHANGED <<stage, exit_code>>
                 [] mtx_cmd = "unload" ->
                     /\ frame' = Frame("req", slot, drive_device, drive_index, volume', FALSE)
                     /\ pc' = UnloadEntry
                     /\ UNCHANGED <<stage, exit_code>>
                 [] mtx_cmd = "transfer" ->
                     /\ IF TransferRefused(volume')
                        THEN pc' = "done" /\ exit_code' = 1
                        ELSE pc' = "transfer" /\ UNCHANGED exit_code
                     /\ UNCHANGED <<stage, frame>>
                 [] OTHER ->
                     /\ stage' = "command"
                     /\ pc' = "status"
                     /\ UNCHANGED <<frame, exit_code>>
    /\ UNCHANGED <<config, request, cln_tapes, cln_tuple, sg, tapealerts, s, wait_ret,
                   stdout, crashed>>

\* `mtx status` inside do_list, do_listall, do_slots, do_loaded called by the
\* dispatcher, and the print of the result
StatusForCommand(rc, out) ==
    /\ pc = "status" /\ stage = "command"
    /\ trace' = Append(trace, Ev("mtx", "status", 0, 0, "", rc, 0, FALSE))
    /\ pc' = "done"
    /\ IF rc # 0
       THEN /\ exit_code' = rc
            /\ stdout' = IF mtx_cmd = "loaded" THEN Append(stdout, Out("stderr", "")) ELSE stdout
            /\ UNCHANGED <<status_out, crashed>>
       ELSE /\ status_out' = out
            /\ CASE mtx_cmd = "list" ->
                     /\ stdout' = Append(stdout, Out("list",
                            DoListText(out.elems, include_import_export, vxa_packetloader)))
                     /\ exit_code' = 0 /\ UNCHANGED crashed
                 [] mtx_cmd = "listall" ->
                     /\ stdout' = Append(stdout, Out("listall",
                            MapTokens(ListAll(out.elems, include_import_export))))
                     /\ exit_code' = 0 /\ UNCHANGED crashed
                 [] mtx_cmd = "loaded" ->
                     /\ stdout' = Append(stdout, Out("loaded",
                            DoLoadedText(out.elems, drive_index)))
                     /\ exit_code' = 0 /\ UNCHANGED crashed
                 [] OTHER ->
                     \* do_slots: slots_line.group(0) raises when the search found nothing
                     IF out.summary = -1
                     THEN exit_code' = 1 /\ crashed' = TRUE /\ UNCHANGED stdout
                     ELSE /\ stdout' = Append(stdout, Out("slots", out.summary))
                          /\ exit_code' = 0 /\ UNCHANGED crashed
    /\ UNCHANGED <<config, request, stage, all_slots, volume, cln_tapes, cln_tuple, sg,
                   tapealerts, frame, s, wait_ret>>

\* do_unload, lines 686-696: mt offline, its exit code only logged, then offline_sleep
DoOffline(rc) ==
    /\ pc = "offline"
    /\ trace' = Append(trace, Ev("mt", "offline", 0, 0, frame.drv_dev, rc, 0, frame.cln))
                 \o (IF offline_sleep # 0 THEN <<Sleep("offline_sleep", offline_sleep)>> ELSE <<>>)
    /\ pc' = "unload"
    /\ UNCHANGED <<config, request, stage, status_out, all_slots, volume, cln_tapes,
                   cln_tuple, sg, tapealerts, frame, s, wait_ret, stdout, exit_code, crashed>>

\* do_clean, line 493: do_unload(cln_slot, '', cln_tape_in_drv[1], cln_vol, cln = True)
RelocFrame(tuple, d) == Frame("reloc", tuple[1], "", d, tuple[2], TRUE)

\* do_clean, line 496: do_load(cln_slot, drive_device, drive_index, cln_vol, cln = True)
CleanLoadFrame(tuple) == Frame("clean", tuple[1], drive_device, drive_index, tuple[2], TRUE)

\* C5 mutant: do_unload(cln = True), leaving the arguments to their defaults
PostUnloadFrame_Defaults(f) == Frame("post", slot, drive_device, drive_index, volume, TRUE)

\* do_load, line 656: do_unload(slt, drv_dev, drv_idx, vol, cln = True)
PostUnloadFrame(f) == Frame("post", f.slt, f.drv_dev, f.drv_idx, f.vol, TRUE)

\* do_unload returns ret to its caller: the dispatcher (sys.exit(result)),
\* do_clean (which goes on to line 496), or do_load / do_clean / do_checkdrive /
\* the requested do_unload, which returns its own returncode, 0
UnloadReturns(ret) ==
    CASE frame.role = "req" ->
           pc' = "done" /\ exit_code' = ret /\ UNCHANGED frame
      [] frame.role = "reloc" ->
           pc' = "load" /\ frame' = CleanLoadFrame(cln_tuple) /\ UNCHANGED exit_code
      [] OTHER ->
           pc' = "done" /\ exit_code' = 0 /\ UNCHANGED frame

\* C3 mutant: the cln flag is not tested
EntersCheckDrive_IgnoresCln(rc, cln) == rc = 0 /\ chk_drive

\* C4 mutant: the drive check also follows a failed unload
EntersCheckDrive_IgnoresRc(rc, cln) == ~cln /\ chk_drive

\* do_unload, lines 703-726: the drive check follows a successful unload that
\* was not called with cln = True, when chk_drive is set
EntersCheckDrive(rc, cln) == rc = 0 /\ ~cln /\ chk_drive

\* do_checkdrive, line 560
NoCleaningPossible(tapes) == auto_clean /\ Len(tapes) = 0

\* do_unload, lines 697-738, and do_checkdrive up to do_get_sg_node's first command
DoUnload(rc) ==
    /\ pc = "unload"
    /\ trace' = Append(trace, Ev("mtx", "unload", frame.slt, frame.drv_idx, "", rc, 0, frame.cln))
    /\ stdout' = IF rc # 0 THEN Append(stdout, Out("Failed to unload", frame.drv_idx)) ELSE stdout
    /\ IF EntersCheckDrive(rc, frame.cln)
       THEN /\ cln_tapes' = ChkForClnTapes(all_slots, cln_str)
            /\ IF NoCleaningPossible(cln_tapes')
               THEN UnloadReturns(0)
               ELSE /\ pc' = IF DevBranch(drive_device) = "by-path" THEN "ls" ELSE "lsscsi"
                    /\ UNCHANGED <<exit_code, frame>>
       ELSE /\ UnloadReturns(rc)
            /\ UNCHANGED cln_tapes
    /\ UNCHANGED <<config, request, stage, status_out, all_slots, volume, cln_tuple, sg,
                   tapealerts, s, wait_ret, crashed>>

\* do_get_sg_node, lines 527-536: ls -l of a by-path device
DoLs(rc) ==
    /\ pc = "ls"
    /\ trace' = Append(trace, Ev("ls", "-l", 0, 0, drive_device, rc, 0, FALSE))
    /\ pc' = "lsscsi"
    /\ UNCHANGED <<config, request, stage, status_out, all_slots, volume, cln_tapes,
                   cln_tuple, sg, tapealerts, frame, s, wait_ret, stdout, exit_code, crashed>>

\* do_get_sg_node, lines 539-552.  A drive_device that is neither /dev/st*,
\* /dev/nst*, by-id nor by-path leaves `st` unbound: line 545 raises.
\* found: the lsscsi output has a line matching the drive.
DoLsscsi(rc, found) ==
    /\ pc = "lsscsi"
    /\ trace' = Append(trace, Ev("lsscsi", "-ug", 0, 0, "", rc, 0, FALSE))
    /\ IF DevBranch(drive_device) = "none"
       THEN /\ pc' = "done" /\ exit_code' = 1 /\ crashed' = TRUE
            /\ UNCHANGED <<sg, frame>>
       ELSE IF found
       THEN /\ pc' = "tapeinfo" /\ sg' = "/dev/sg1"
            /\ UNCHANGED <<exit_code, crashed, frame>>
       ELSE /\ sg' = "1"
            /\ UnloadReturns(0)
            /\ UNCHANGED crashed
    /\ UNCHANGED <<config, request, stage, status_out, all_slots, volume, cln_tapes,
                   cln_tuple, tapealerts, s, wait_ret, stdout>>

\* do_checkdrive, lines 591-606: do_clean is called
CallsDoClean(alerts) == Len(alerts) > 0 /\ CleanDrive(alerts) /\ auto_clean

\* do_checkdrive, lines 583-616, and do_clean up to its first command
DoTapeinfo(rc, alerts) ==
    /\ pc = "tapeinfo"
    /\ trace' = Append(trace, Ev("tapeinfo", "-f", 0, 0, sg, rc, 0, FALSE))
    /\ tapealerts' = alerts
    /\ IF CallsDoClean(alerts)
       THEN \E i \in 1..Len(cln_tapes) :
              /\ cln_tuple' = cln_tapes[i]
              /\ LET d == ClnTapeInDrv(all_slots, cln_tuple'[1])
                 IN  IF d # -1
                     THEN frame' = RelocFrame(cln_tuple', d) /\ pc' = UnloadEntry
                     ELSE frame' = CleanLoadFrame(cln_tuple') /\ pc' = "load"
              /\ UNCHANGED exit_code
       ELSE UnloadReturns(0) /\ UNCHANGED cln_tuple
    /\ UNCHANGED <<config, request, stage, status_out, all_slots, volume, cln_tapes, sg,
                   s, wait_ret, stdout, crashed>>

\* C9 mutant: the settle delay is skipped
SettleSleep_Missing == <<>>

\* do_load, lines 660-662: the settle delay before the readiness poll
SettleSleep == IF load_sleep # 0 THEN <<Sleep("load_sleep", load_sleep)>> ELSE <<>>

\* C11 mutant: do_load does not test the exit code of mtx load
LoadFailed_Never(rc) == FALSE

\* do_load, line 639
LoadFailed(rc) == rc # 0

\* do_load, lines 633-664
DoLoad(rc) ==
    /\ pc = "load"
    /\ LET ev == Ev("mtx", "load", frame.slt, frame.drv_idx, "", rc, 0, frame.cln)
       IN  IF LoadFailed(rc)
           THEN /\ trace' = Append(trace, ev)
                /\ stdout' = Append(stdout, Out("Failed to load", frame.drv_idx))
                /\ pc' = "done" /\ exit_code' = rc
                /\ UNCHANGED <<frame, s>>
           ELSE IF frame.cln
           THEN /\ trace' = trace \o <<ev, Sleep("clean_wait", clean_wait)>>
                /\ frame' = PostUnloadFrame(frame)
                /\ pc' = UnloadEntry
                /\ UNCHANGED <<stdout, exit_code, s>>
           ELSE /\ trace' = trace \o <<ev>> \o SettleSleep
                /\ s' = 0
                /\ pc' = "poll"
                /\ UNCHANGED <<stdout, exit_code, frame>>
    /\ UNCHANGED <<config, request, stage, status_out, all_slots, volume, cln_tapes,
                   cln_tuple, sg, tapealerts, wait_ret, crashed>>

\* C29 mutant: the loop runs once more
KeepWaiting_OneMore(sv) == sv <= load_wait + 1

\* do_wait_for_drive, line 442: the loop condition
KeepWaiting(sv) == sv <= load_wait

\* C8 mutant: the timeout test is off by one
WaitResult_OffByOne(sv) == IF sv = load_wait THEN 1 ELSE 0

\* do_wait_for_drive, lines 454-464: the return value
WaitResult(sv) == IF sv = load_wait + 1 THEN 1 ELSE 0

\* one iteration of do_wait_for_drive's loop (lines 442-453); after the last,
\* the return and the dispatcher's sys.exit(result)
DoWaitForDrive(ready) ==
    /\ pc = "poll"
    /\ KeepWaiting(s)
    /\ LET ev == [Ev("mt", "status", 0, 0, drive_device, 0, 0, FALSE) EXCEPT !.match = ready]
       IN  IF ready
           THEN /\ trace' = Append(trace, ev)
                /\ wait_ret' = WaitResult(s)
                /\ pc' = "done" /\ exit_code' = wait_ret'
                /\ UNCHANGED s
           ELSE /\ trace' = trace \o <<ev, Sleep("retry", 1)>>
                /\ s' = s + 1
                /\ IF KeepWaiting(s')
                   THEN UNCHANGED <<pc, wait_ret, exit_code>>
                   ELSE /\ wait_ret' = WaitResult(s')
                        /\ pc' = "done" /\ exit_code' = wait_ret'
    /\ UNCHANGED <<config, request, stage, status_out, all_slots, volume, cln_tapes,
                   cln_tuple, sg, tapealerts, frame, stdout, crashed>>

\* the exit code after the dispatcher's `do_transfer()` (lines 868-869): the
\* value do_transfer returns is dropped and the script runs off its end
TransferExit(rc) == 0

\* do_transfer, lines 755-768
DoTransfer(rc) ==
    /\ pc = "transfer"
    /\ trace' = Append(trace, Ev("mtx", "transfer", slot, IntOf(drive_device), "", rc, 0, FALSE))
    /\ pc' = "done" /\ exit_code' = TransferExit(rc)
    /\ UNCHANGED <<config, request, stage, status_out, all_slots, volume, cln_tapes,
                   cln_tuple, sg, tapealerts, frame, s, wait_ret, stdout, crashed>>

\* `mtx status` prints the summary line; only the slots command reads it
StatusCommand(rc, d, sm) ==
    /\ sm = -1 => mtx_cmd = "slots"
    /\ StatusForCommand(rc, StatusOut(sm, d))

\* a failed lsscsi lists no device
Lsscsi(rc, found) ==
    /\ rc # 0 => ~found
    /\ DoLsscsi(rc, found)

\* a failed tapeinfo prints no TapeAlert line
Tapeinfo(rc, alerts) ==
    /\ rc # 0 => alerts = <<>>
    /\ DoTapeinfo(rc, alerts)

Next ==
    \/ Start
    \/ \E rc \in RCs : DoInventory(rc)
    \/ \E rc \in RCs, d \in DumpSet : StatusForVolume(rc, StatusOut(2, d))
    \/ \E rc \in RCs, d \in StatusDumps(mtx_cmd), sm \in {-1, 2} : StatusCommand(rc, d, sm)
    \/ \E rc \in RCs : DoOffline(rc)
    \/ \E rc \in RCs : DoUnload(rc)
    \/ \E rc \in RCs : DoLs(rc)
    \/ \E rc \in RCs, found \in BOOLEAN : Lsscsi(rc, found)
    \/ \E rc \in RCs, alerts \in AlertSets : Tapeinfo(rc, alerts)
    \/ \E rc \in RCs : DoLoad(rc)
    \/ \E ready \in BOOLEAN : DoWaitForDrive(ready)
    \/ \E rc \in RCs : DoTransfer(rc)

Spec == Init /\ [][Next]_vars

\* The script is one synchronous thread: when the external command it waits
\* for returns, it takes its next step.
FairSpec == Spec /\ WF_vars(Next)

(***************************************************************************)
(* Reading the trace.                                                      *)
(***************************************************************************)
TraceIdx == 1..Len(trace)
IsMtx(e, op) == e.tool = "mtx" /\ e.op = op
Issued(op) == \E i \in TraceIdx : IsMtx(trace[i], op)

\* the status dump was obtained and the listing built from it
Resolved == \E i \in TraceIdx : IsMtx(trace[i], "status") /\ trace[i].rc = 0

\* the listing shows slot n (storage or import/export) Full with a label
ListedFull(n) ==
    \E i \in 1..Len(all_slots) :
        all_slots[i].k \in {"S", "I"} /\ all_slots[i].n = n /\ all_slots[i].f
        /\ all_slots[i].vol # <<>>

(***************************************************************************)
(* C1: for a transfer request whose volumes were resolved, the mtx         *)
(* transfer command is issued iff the source slot resolves to a non-empty  *)
(* label and the destination slot to an empty one; in every other case it  *)
(* is never issued and the process exits with code 1.  No other command    *)
(* ever issues a transfer.                                                 *)
(***************************************************************************)
C1_TransferGuard ==
    /\ (Issued("transfer") \/ pc = "transfer") =>
          /\ mtx_cmd = "transfer"
          /\ ListedFull(slot) /\ ~ListedFull(IntOf(drive_device))
    /\ (mtx_cmd = "transfer" /\ pc = "done" /\ Resolved) =>
          IF ListedFull(slot) /\ ~ListedFull(IntOf(drive_device))
          THEN Issued("transfer")
          ELSE ~Issued("transfer") /\ exit_code = 1

\* a transfer was refused because the destination is occupied
C1_Witness ==
    /\ mtx_cmd = "transfer" /\ pc = "done" /\ Resolved
    /\ ListedFull(slot) /\ ListedFull(IntOf(drive_device))
    /\ ~Issued("transfer") /\ exit_code = 1

(***************************************************************************)
(* C2: the cleaning tape do_clean chooses is a Full element of the listing *)
(* whose label begins with cln_str, and the cleaning load takes that       *)
(* tape's slot; with auto_clean set and no such element in the listing,    *)
(* the only changer load/unload command of an unload run is the requested  *)
(* unload.                                                                 *)
(***************************************************************************)
LabelBegins(vol, pre) == \A i \in 1..Len(pre) : i <= Len(vol) /\ vol[i] = pre[i]

\* listing element i is a Full element holding the tape (slt, vol)
HoldsTape(e, slt, vol) ==
    e.f /\ e.vol = vol /\ (IF e.k = "D" THEN e.src = slt ELSE e.n = slt)

IsLoadUnload(e)  == e.tool = "mtx" /\ e.op \in {"load", "unload"}

C2_CleaningSelection ==
    /\ cln_tuple # <<>> =>
          /\ LabelBegins(cln_tuple[2], cln_str)
          /\ \E i \in 1..Len(all_slots) : HoldsTape(all_slots[i], cln_tuple[1], cln_tuple[2])
    /\ \A j \in TraceIdx :
          (IsMtx(trace[j], "load") /\ trace[j].cln) =>
              cln_tuple # <<>> /\ trace[j].slot = cln_tuple[1]
    /\ ( /\ mtx_cmd = "unload" /\ auto_clean
         /\ ~\E i \in 1..Len(all_slots) :
                all_slots[i].f /\ LabelBegins(all_slots[i].vol, cln_str) )
       => \A j \in TraceIdx :
             IsLoadUnload(trace[j]) =>
                 /\ trace[j].op = "unload" /\ ~trace[j].cln
                 /\ trace[j].slot = slot /\ trace[j].idx = drive_index
                 /\ \A k \in TraceIdx : IsLoadUnload(trace[k]) => k = j

\* a cleaning tape was chosen among two candidates and loaded
C2_Witness ==
    /\ pc = "done" /\ Len(cln_tapes) >= 2 /\ cln_tuple # <<>>
    /\ \E j \in TraceIdx : IsMtx(trace[j], "load") /\ trace[j].cln /\ trace[j].rc = 0

(***************************************************************************)
(* C3: an unload called with cln = True is never followed by a diagnostic  *)
(* query (ls, lsscsi, tapeinfo) and starts no cleaning cycle: the drive    *)
(* check runs at most once and at most one cleaning tape is loaded per     *)
(* invocation.                                                             *)
(***************************************************************************)
IsDiag(e) == e.tool \in {"ls", "lsscsi", "tapeinfo"}

C3_NoRecursion ==
    /\ Cardinality({j \in TraceIdx : trace[j].tool = "tapeinfo"}) <= 1
    /\ Cardinality({j \in TraceIdx : trace[j].tool = "lsscsi"}) <= 1
    /\ Cardinality({j \in TraceIdx : IsMtx(trace[j], "load") /\ trace[j].cln}) <= 1
    /\ \A i, j \in TraceIdx :
          (i < j /\ IsMtx(trace[i], "unload") /\ trace[i].cln) => ~IsDiag(trace[j])
    /\ pc \in {"ls", "lsscsi", "tapeinfo"} => ~frame.cln

\* a run that relocated the cleaning tape, cleaned, and unloaded it again
C3_Witness ==
    /\ pc = "done" /\ exit_code = 0
    /\ Cardinality({j \in TraceIdx :
                      IsMtx(trace[j], "unload") /\ trace[j].cln /\ trace[j].rc = 0}) = 2
    /\ CleanDrive(tapealerts)

(***************************************************************************)
(* C4: the tapeinfo query and every command of the cleaning cycle are      *)
(* issued only in an unload run, after the requested unload's mtx command  *)
(* returned 0; nothing is issued after a failed requested unload.          *)
(***************************************************************************)
IsReqUnload(e) == IsMtx(e, "unload") /\ ~e.cln

C4_OnlyAfterGoodUnload ==
    /\ \A j \in TraceIdx :
          (trace[j].tool = "tapeinfo" \/ trace[j].cln) =>
              /\ mtx_cmd = "unload"
              /\ \E i \in 1..(j-1) : IsReqUnload(trace[i]) /\ trace[i].rc = 0
    /\ \A i \in TraceIdx :
          (IsReqUnload(trace[i]) /\ trace[i].rc # 0) => i = Len(trace) /\ pc = "done"
    /\ pc \in {"ls", "lsscsi", "tapeinfo"} => mtx_cmd = "unload"

\* the diagnostic ran and a cleaning tape was loaded after a good unload
C4_Witness ==
    /\ \E i, j, k \in TraceIdx :
          /\ i < j /\ j < k
          /\ IsReqUnload(trace[i]) /\ trace[i].rc = 0
          /\ trace[j].tool = "tapeinfo"
          /\ IsMtx(trace[k], "load") /\ trace[k].cln

(***************************************************************************)
(* C5: the cleaning load takes the chosen tape's slot into the requested   *)
(* drive index; when it returns 0 the next event is the clean_wait sleep,  *)
(* and the only changer command after it is the unload of that drive index *)
(* to that slot, which ends the run; no readiness poll and no load_sleep   *)
(* or retry sleep follows a cleaning load.                                 *)
(***************************************************************************)
C5_CleaningOrder ==
    \A j \in TraceIdx :
        (IsMtx(trace[j], "load") /\ trace[j].cln) =>
            /\ trace[j].slot = cln_tuple[1] /\ trace[j].idx = drive_index
            /\ trace[j].rc # 0 => j = Len(trace)
            /\ trace[j].rc = 0 =>
                  /\ j < Len(trace) /\ trace[j+1] = Sleep("clean_wait", clean_wait)
                  /\ pc = "done" => \E k \in (j+1)..Len(trace) : IsMtx(trace[k], "unload")
            /\ \A k \in (j+1)..Len(trace) :
                  /\ ~(trace[k].tool = "mt" /\ trace[k].op = "status")
                  /\ trace[k].tool = "sleep" =>
                        \/ (k = j + 1 /\ trace[k].op = "clean_wait")
                        \/ trace[k].op = "offline_sleep"
                  /\ trace[k].tool = "mtx" =>
                        /\ trace[k].op = "unload" /\ trace[k].cln
                        /\ trace[k].slot = trace[j].slot /\ trace[k].idx = trace[j].idx
                        /\ k = Len(trace)

\* a complete cleaning cycle: load, wait, offline, unload
C5_Witness ==
    /\ pc = "done" /\ offline
    /\ \E j \in TraceIdx :
          /\ IsMtx(trace[j], "load") /\ trace[j].cln /\ trace[j].rc = 0
          /\ IsMtx(trace[Len(trace)], "unload") /\ trace[Len(trace)].rc = 0
          /\ Len(trace) > j + 2

(***************************************************************************)
(* The requested unload and what followed it.                              *)
(***************************************************************************)
ReqUnloadOk == \E i \in TraceIdx : IsReqUnload(trace[i]) /\ trace[i].rc = 0

\* a changer command was issued after the requested unload
CommandAfterReqUnload ==
    \E i, j \in TraceIdx : i < j /\ IsReqUnload(trace[i]) /\ trace[j].tool = "mtx"

CleaningLoadIssued == \E j \in TraceIdx : IsMtx(trace[j], "load") /\ trace[j].cln

\* the tapeinfo output has a TapeAlert whose code is a cleaning code
HasCleaningAlert ==
    \E i \in 1..Len(tapealerts) : tapealerts[i][1] \in cln_codes

\* do_get_sg_node was run and gave no sg node
SgUnresolved == (\E j \in TraceIdx : trace[j].tool = "lsscsi") /\ sg # "/dev/sg1"

\* the listing has no Full element whose label begins with cln_str
NoCandidate ==
    ~\E i \in 1..Len(all_slots) : all_slots[i].f /\ LabelBegins(all_slots[i].vol, cln_str)

(***************************************************************************)
(* C6: a cleaning tape is loaded only if chk_drive and auto_clean are set  *)
(* and tapeinfo reported a TapeAlert with a cleaning code; when there is   *)
(* no such alert, or auto_clean is unset, a run whose requested unload     *)
(* returned 0 issues no further changer command and exits with code 0.     *)
(***************************************************************************)
C6_CleanOnlyOnAlert ==
    /\ CleaningLoadIssued => chk_drive /\ auto_clean /\ HasCleaningAlert
    /\ ( /\ pc = "done" /\ mtx_cmd = "unload" /\ ReqUnloadOk
         /\ (~HasCleaningAlert \/ ~auto_clean) )
       => ~CommandAfterReqUnload /\ exit_code = 0

\* C6 without the runs that end in do_get_sg_node's exception
C6_ExceptCrash == crashed \/ C6_CleanOnlyOnAlert

(***************************************************************************)
(* C7: after a successful requested unload with chk_drive set, when        *)
(* auto_clean is set and the listing has no cleaning candidate, or when    *)
(* the drive device gives no sg node, no cleaning command is issued, the   *)
(* run does not crash and the process exits with code 0.                   *)
(***************************************************************************)
C7_CleaningUnavailable ==
    ( /\ pc = "done" /\ mtx_cmd = "unload" /\ chk_drive /\ ReqUnloadOk
      /\ ((auto_clean /\ NoCandidate) \/ SgUnresolved) )
    => ~CommandAfterReqUnload /\ ~crashed /\ exit_code = 0

\* C7 for the device paths do_get_sg_node recognises
C7_RecognisedPaths == DevBranch(drive_device) = "none" \/ C7_CleaningUnavailable

(***************************************************************************)
(* C8: do_wait_for_drive issues at most load_wait + 1 status queries, none *)
(* after the first whose output matches `ready`; it returns 1 exactly when *)
(* load_wait + 1 queries were issued and none matched, and 0 exactly when  *)
(* a query matched.                                                        *)
(***************************************************************************)
Polls == {j \in TraceIdx : trace[j].tool = "mt" /\ trace[j].op = "status"}

C8_ReadinessPoll ==
    /\ Cardinality(Polls) <= load_wait + 1
    /\ \A i, j \in Polls : i < j => ~trace[i].match
    /\ wait_ret \in {-1, 0, 1}
    /\ wait_ret = 1 <=> (Cardinality(Polls) = load_wait + 1 /\ \A j \in Polls : ~trace[j].match)
    /\ wait_ret = 0 <=> \E j \in Polls : trace[j].match
    /\ pc = "poll" => s = Cardinality(Polls) /\ wait_ret = -1

\* the poll timed out after more than one query
C8_Witness ==
    /\ wait_ret = 1 /\ load_wait >= 1
    /\ Cardinality(Polls) = load_wait + 1

C10_TransferExitCode ==
    \A i \in TraceIdx :
        (pc = "done" /\ IsMtx(trace[i], "transfer")) => exit_code = trace[i].rc

(***************************************************************************)
(* C11: when the mtx command of the requested load, or of the requested    *)
(* unload, returns a nonzero code, it is the last command of the run and   *)
(* the process exits with that code: no readiness poll follows a failed    *)
(* load, no diagnostic query or cleaning command a failed unload.          *)
(***************************************************************************)
IsReqLoad(e) == IsMtx(e, "load") /\ ~e.cln

C11_FailedLoadUnload ==
    \A i \in TraceIdx :
        ((IsReqLoad(trace[i]) \/ IsReqUnload(trace[i])) /\ trace[i].rc # 0) =>
            /\ i = Len(trace)
            /\ pc = "done" /\ exit_code = trace[i].rc
            /\ Polls = {}
            /\ \A j \in TraceIdx : ~IsDiag(trace[j]) /\ ~trace[j].cln

\* a requested load failed although the poll would have been allowed to wait
C11_Witness ==
    /\ mtx_cmd = "load" /\ load_wait >= 1 /\ pc = "done"
    /\ trace # <<>> /\ IsReqLoad(trace[Len(trace)]) /\ trace[Len(trace)].rc = 2
    /\ exit_code = 2

(***************************************************************************)
(* C12: every mtx, mt offline, tapeinfo or lsscsi invocation that returns  *)
(* a nonzero code is the last command of the run, and the process exits    *)
(* with that code.                                                         *)
(***************************************************************************)
IsControlUtility(e) == e.tool \in {"mtx", "mt", "tapeinfo", "lsscsi"}

C12_ToolFailureFatal ==
    \A i \in TraceIdx :
        (IsControlUtility(trace[i]) /\ trace[i].rc # 0) =>
            /\ i = Len(trace)
            /\ pc = "done" /\ exit_code = trace[i].rc

(***************************************************************************)
(* C13: with inventory set, the status dump of list and listall and the    *)
(* one do_getvolname takes for load, unload, transfer and loaded directly  *)
(* follows an mtx inventory that returned 0; a nonzero code of inventory   *)
(* or status ends the run with that code, no command follows it, and no    *)
(* load, unload or transfer is issued in that run.                         *)
(***************************************************************************)
TakesListing(cmd) == cmd \in {"list", "listall", "load", "unload", "transfer", "loaded"}

C13_InventoryFirst ==
    /\ (inventory /\ TakesListing(mtx_cmd)) =>
          /\ trace # <<>> => IsMtx(trace[1], "inventory")
          /\ \A j \in TraceIdx :
                IsMtx(trace[j], "status") =>
                    /\ j >= 2 /\ IsMtx(trace[1], "inventory") /\ trace[1].rc = 0
                    /\ j = 2 \/ (mtx_cmd = "loaded" /\ j = 3 /\ trace[2].rc = 0)
          /\ ~(pc = "status" /\ trace = <<>>)
    /\ Cardinality({j \in TraceIdx : IsMtx(trace[j], "inventory")}) <= 1
    /\ \A i \in TraceIdx :
          ((IsMtx(trace[i], "inventory") \/ IsMtx(trace[i], "status")) /\ trace[i].rc # 0) =>
              /\ i = Len(trace)
              /\ pc = "done" /\ exit_code = trace[i].rc
              /\ ~Issued("load") /\ ~Issued("unload") /\ ~Issued("transfer")

\* inventory ran, the status after it failed, and a load run ended there
C13_Witness ==
    /\ inventory /\ mtx_cmd = "load" /\ pc = "done" /\ exit_code = 2
    /\ Len(trace) = 2
    /\ IsMtx(trace[1], "inventory") /\ trace[1].rc = 0
    /\ IsMtx(trace[2], "status") /\ trace[2].rc = 2

(***************************************************************************)
(* What list and listall printed, against the status dump they read.       *)
(***************************************************************************)
\* the element lines listall keeps: drives and storage slots, and the
\* import/export slots when include_import_export is set
KeptLines ==
    SelectSeq(status_out.elems,
              LAMBDA e : e.k \in {"D", "S"} \/ (include_import_export /\ e.k = "I"))

FullLines == SelectSeq(KeptLines, LAMBDA e : e.f)

\* the dump reports the drives, then the storage slots, then the import/export slots
ReportedInBlocks(elems) ==
    \A i, j \in 1..Len(elems) :
        i < j => /\ elems[j].k = "D" => elems[i].k = "D"
                 /\ elems[i].k = "I" => elems[j].k = "I"

ListingDone(cmd) == mtx_cmd = cmd /\ pc = "done" /\ exit_code = 0 /\ ~crashed

(***************************************************************************)
(* C14: listall prints one line per data-transfer and storage element of   *)
(* the dump, and per import/export element when include_import_export is   *)
(* set; line i is the canonical token of the i-th such element in the      *)
(* order the device reported them.                                         *)
(***************************************************************************)
C14_ListallOutput ==
    ListingDone("listall") =>
        /\ Len(stdout) = 1 /\ stdout[1].what = "listall"
        /\ Len(stdout[1].val) = Len(KeptLines)
        /\ \A i \in 1..Len(KeptLines) :
              LET e == KeptLines[i]
              IN  stdout[1].val[i] =
                    IF e.k = "D"
                    THEN (IF e.f THEN <<"D", e.n, "F", e.src, e.vol>> ELSE <<"D", e.n, "E">>)
                    ELSE (IF e.f THEN <<e.k, e.n, "F", e.vol>> ELSE <<e.k, e.n, "E">>)

\* C14 for the dumps that report the import/export slots last
C14_BlockOrder == ReportedInBlocks(status_out.elems) => C14_ListallOutput

(***************************************************************************)
(* C15: list prints exactly one slot:volume line per Full element of the   *)
(* dump (import/export elements counted only with include_import_export)   *)
(* and nothing else: a Full slot under its own number, a Full drive under  *)
(* the source slot of its volume.                                          *)
(***************************************************************************)
ExpectedLine(e) == <<(IF e.k = "D" THEN e.src ELSE e.n), e.vol>>

C15_ListOutput ==
    ListingDone("list") =>
        /\ Len(stdout) = 1 /\ stdout[1].what = "list"
        /\ Len(stdout[1].val) = Len(FullLines)
        /\ \A i \in 1..Len(FullLines) :
              Cardinality({j \in 1..Len(stdout[1].val) :
                             stdout[1].val[j] = ExpectedLine(FullLines[i])}) = 1

\* C15 for the runs without vxa_packetloader
C15_ExceptVxa == vxa_packetloader \/ C15_ListOutput

(***************************************************************************)
(* C16: with vxa_packetloader set, list prints a slot:volume line for      *)
(* every Full drive and every Full storage element of the dump.            *)
(***************************************************************************)
C16_VxaList ==
    (ListingDone("list") /\ vxa_packetloader) =>
        /\ Len(stdout) = 1 /\ stdout[1].what = "list"
        /\ \A i \in 1..Len(status_out.elems) :
              LET e == status_out.elems[i]
              IN  (e.f /\ e.k \in {"D", "S"}) =>
                      \E j \in 1..Len(stdout[1].val) : stdout[1].val[j] = ExpectedLine(e)

(***************************************************************************)
(* C17: loaded prints the source slot of the volume in the drive at the    *)
(* requested drive index when the dump reports that drive Full, and 0 when *)
(* the dump reports it Empty or does not list it; no other line of the     *)
(* dump enters the result.                                                 *)
(***************************************************************************)
RequestedDriveLines ==
    SelectSeq(status_out.elems, LAMBDA e : e.k = "D" /\ e.n = drive_index)

C17_LoadedOutput ==
    ListingDone("loaded") =>
        /\ Len(stdout) = 1 /\ stdout[1].what = "loaded"
        /\ stdout[1].val =
              IF RequestedDriveLines # <<>> /\ RequestedDriveLines[1].f
              THEN RequestedDriveLines[1].src
              ELSE 0

\* the requested drive is Empty while the other drive is Full: loaded prints 0
C17_Witness ==
    /\ ListingDone("loaded") /\ drive_index = 1
    /\ status_out.elems[1].f /\ ~status_out.elems[2].f
    /\ stdout = <<Out("loaded", 0)>>

\* the dump does not list the requested drive: loaded prints 0
C17_UnlistedDrive ==
    /\ ListingDone("loaded") /\ RequestedDriveLines = <<>>
    /\ stdout = <<Out("loaded", 0)>>

(***************************************************************************)
(* C18: slots prints the slot count of the dump's summary line; when the   *)
(* dump has no summary line the run still ends normally, with no exception *)
(* raised.                                                                 *)
(***************************************************************************)
SlotsStatusOk ==
    /\ mtx_cmd = "slots" /\ pc = "done"
    /\ \E i \in TraceIdx : IsMtx(trace[i], "status") /\ trace[i].rc = 0

C18_SlotsOutput ==
    SlotsStatusOk =>
        /\ ~crashed /\ exit_code = 0
        /\ status_out.summary # -1 => stdout = <<Out("slots", status_out.summary)>>

\* C18 for the dumps that have a summary line
C18_WithSummary == (SlotsStatusOk /\ status_out.summary = -1) \/ C18_SlotsOutput

(***************************************************************************)
(* C19: a run that ends with a nonzero exit code has printed at least one  *)
(* line to stdout.                                                         *)
(***************************************************************************)
C19_FailureDiagnostic ==
    (pc = "done" /\ exit_code # 0) => stdout # <<>>

(***************************************************************************)
(* C20: for a command name outside list, listall, loaded, slots, load,     *)
(* unload and transfer, no external command is issued, the error naming    *)
(* the command is printed, and the run ends with exit code 1 without an    *)
(* exception.                                                              *)
(***************************************************************************)
C20_UnknownCommand ==
    mtx_cmd \notin {"list", "listall", "loaded", "slots", "load", "unload", "transfer"} =>
        /\ trace = <<>>
        /\ pc \in {"start", "done"}
        /\ pc = "done" =>
              /\ exit_code = 1 /\ ~crashed
              /\ \E i \in 1..Len(stdout) : stdout[i] = Out("invalid command", mtx_cmd)

\* the run of an unknown command has ended
C20_Witness ==
    /\ mtx_cmd = "bogus" /\ pc = "done" /\ exit_code = 1
    /\ trace = <<>> /\ stdout # <<>>

(***************************************************************************)
(* What the status dump read by do_getvolname reports.                     *)
(***************************************************************************)
DumpIdx == 1..Len(status_out.elems)

\* the dump reports slot n, storage or import/export, Full
DumpSlotFull(n) ==
    \E i \in DumpIdx :
        /\ status_out.elems[i].k \in {"S", "I"}
        /\ status_out.elems[i].n = n /\ status_out.elems[i].f

\* the dump reports drive d Full with a volume whose source slot is n
DumpDriveHolds(d, n) ==
    \E i \in DumpIdx :
        /\ status_out.elems[i].k = "D" /\ status_out.elems[i].n = d
        /\ status_out.elems[i].f /\ status_out.elems[i].src = n

(***************************************************************************)
(* C21: with include_import_export set or not, mtx transfer is issued only *)
(* when the dump reports the source slot Full and the destination slot not *)
(* Full, whether the slot is a storage or an import/export element.        *)
(***************************************************************************)
C21_TransferBothKinds ==
    (Issued("transfer") \/ pc = "transfer") =>
        DumpSlotFull(slot) /\ ~DumpSlotFull(IntOf(drive_device))

\* C21 for the runs with include_import_export set
C21_WithImportExport == include_import_export => C21_TransferBothKinds

(***************************************************************************)
(* C22: for load, the volume resolves to the label of the Full slot        *)
(* element at the requested slot; else to the label of the drive at the    *)
(* requested drive index if its source slot is the requested slot; else to *)
(* the empty label; and mtx load is issued in all three cases.             *)
(***************************************************************************)
LoadResolved == mtx_cmd = "load" /\ Resolved

C22_LoadVolume ==
    LoadResolved =>
        /\ volume = IF DumpSlotFull(slot) \/ DumpDriveHolds(drive_index, slot)
                    THEN LabelOf(slot)
                    ELSE <<>>
        /\ pc = "done" => Issued("load")

\* mtx load is issued whatever the volume resolved to
C22_LoadIssued == (LoadResolved /\ pc = "done") => Issued("load")

(***************************************************************************)
(* The cleaning cycle, against the listing it was planned from.            *)
(***************************************************************************)
\* the listing shows the chosen cleaning tape inside drive d
ChosenInDrive(d) ==
    \E i \in 1..Len(all_slots) :
        /\ all_slots[i].k = "D" /\ all_slots[i].n = d /\ all_slots[i].f
        /\ all_slots[i].src = cln_tuple[1] /\ all_slots[i].vol = cln_tuple[2]

\* trace[j] is the unload do_clean issues before the cleaning load
IsRelocUnload(j) ==
    /\ IsMtx(trace[j], "unload") /\ trace[j].cln
    /\ \A k \in 1..(j-1) : ~IsMtx(trace[k], "load")

Relocating == frame.role = "reloc" \/ \E j \in TraceIdx : IsRelocUnload(j)

(***************************************************************************)
(* C23: once a cleaning tape is chosen, an unload to its home slot comes   *)
(* before its load iff the listing shows that tape in a drive; the unload  *)
(* names that drive and the tape's home slot, so it never unloads a drive  *)
(* that holds another volume.                                              *)
(***************************************************************************)
C23_RelocateIffInDrive ==
    cln_tuple # <<>> =>
        /\ Relocating <=> \E d \in Drives : ChosenInDrive(d)
        /\ \A j \in TraceIdx :
              IsRelocUnload(j) =>
                  trace[j].slot = cln_tuple[1] /\ ChosenInDrive(trace[j].idx)

(***************************************************************************)
(* C24: when the dump shows that the drive of the requested unload holds a *)
(* volume whose label begins with cln_str, no diagnostic query and no      *)
(* cleaning load or unload follows the requested unload.                   *)
(***************************************************************************)
UnloadsCleaningTape ==
    /\ mtx_cmd = "unload"
    /\ \E i \in DumpIdx :
          /\ status_out.elems[i].k = "D" /\ status_out.elems[i].n = drive_index
          /\ status_out.elems[i].f /\ status_out.elems[i].src = slot
          /\ LabelBegins(status_out.elems[i].vol, cln_str)

C24_CleaningTapeUnload ==
    UnloadsCleaningTape =>
        /\ pc \notin {"ls", "lsscsi", "tapeinfo"}
        /\ \A j \in TraceIdx : ~IsDiag(trace[j]) /\ ~trace[j].cln

(***************************************************************************)
(* C25: after a successful requested unload with chk_drive set, tapeinfo   *)
(* is run exactly once, whatever auto_clean and the cleaning candidates    *)
(* are, unless the sg node could not be resolved.                          *)
(***************************************************************************)
TapeinfoRuns == Cardinality({j \in TraceIdx : trace[j].tool = "tapeinfo"})

C25_DiagnosticFirst ==
    ( /\ pc = "done" /\ mtx_cmd = "unload" /\ chk_drive /\ ReqUnloadOk
      /\ ~SgUnresolved /\ ~crashed )
    => TapeinfoRuns = 1

\* C25 for the runs in which do_checkdrive found a candidate or auto_clean is unset
C25_WithCandidates == (auto_clean /\ NoCandidate) \/ C25_DiagnosticFirst

(***************************************************************************)
(* C26: when the requested unload's mtx command returned 0 and no          *)
(* exception was raised, the process exits with code 0, also when a        *)
(* cleaning load or a cleaning unload returned a nonzero code.             *)
(***************************************************************************)
C26_UnloadExitZero ==
    (pc = "done" /\ mtx_cmd = "unload" /\ ReqUnloadOk /\ ~crashed) => exit_code = 0

CleaningLoadFailed ==
    \E j \in TraceIdx : IsMtx(trace[j], "load") /\ trace[j].cln /\ trace[j].rc # 0

\* C26 for the runs whose cleaning load did not fail
C26_ExceptCleaningLoad == CleaningLoadFailed \/ C26_UnloadExitZero

(***************************************************************************)
(* The library the changer commands act on.  A tape is named by its home   *)
(* slot; the library starts as the dump read by do_getvolname reports it.  *)
(* A load or unload that returns 0 moves the tape, any other moves         *)
(* nothing.                                                                *)
(***************************************************************************)
Library0 ==
    [ s |-> [n \in AllSlotNums |-> IF DumpSlotFull(n) THEN n ELSE 0],
      d |-> [x \in Drives |->
               IF \E n \in AllSlotNums : DumpDriveHolds(x, n)
               THEN CHOOSE n \in AllSlotNums : DumpDriveHolds(x, n)
               ELSE 0] ]

\* the command e can be carried out in the library lib
Feasible(lib, e) ==
    /\ IsLoadUnload(e) /\ e.slot \in AllSlotNums /\ e.idx \in Drives
    /\ IF e.op = "load"
       THEN lib.s[e.slot] # 0 /\ lib.d[e.idx] = 0
       ELSE lib.d[e.idx] # 0 /\ lib.s[e.slot] = 0

Moved(lib, e) ==
    IF ~(Feasible(lib, e) /\ e.rc = 0) THEN lib
    ELSE IF e.op = "load"
    THEN [s |-> [lib.s EXCEPT ![e.slot] = 0], d |-> [lib.d EXCEPT ![e.idx] = lib.s[e.slot]]]
    ELSE [s |-> [lib.s EXCEPT ![e.slot] = lib.d[e.idx]], d |-> [lib.d EXCEPT ![e.idx] = 0]]

\* the library after the first n events of the trace
RECURSIVE LibraryAfter(_)
LibraryAfter(n) == IF n = 0 THEN Library0 ELSE Moved(LibraryAfter(n - 1), trace[n])

\* the changer answered command j as the library stood: 0 iff it could be carried out
Answered(j) ==
    IsLoadUnload(trace[j]) => (trace[j].rc = 0 <=> Feasible(LibraryAfter(j - 1), trace[j]))

CleaningLoadOk ==
    \E j \in TraceIdx : IsMtx(trace[j], "load") /\ trace[j].cln /\ trace[j].rc = 0

(***************************************************************************)
(* C27: when an unload run that loaded a cleaning tape ends with exit code *)
(* 0, the cleaning tape is in its home slot and the requested drive is     *)
(* empty (every command that returned 0 having moved its tape).            *)
(***************************************************************************)
C27_TapeBackHome ==
    ( /\ mtx_cmd = "unload" /\ pc = "done" /\ exit_code = 0 /\ CleaningLoadOk
      /\ \A j \in TraceIdx : trace[j].rc = 0 => Answered(j) )
    => LET lib == LibraryAfter(Len(trace))
       IN  lib.s[cln_tuple[1]] = cln_tuple[1] /\ lib.d[drive_index] = 0

\* C27 for the runs that chose a tape the listing shows in a slot and whose last
\* command, the cleaning unload, returned 0
C27_WhenUnloadOk ==
    \/ trace # <<>> /\ trace[Len(trace)].rc # 0
    \/ cln_tuple # <<>> /\ \E d \in Drives : ChosenInDrive(d)
    \/ C27_TapeBackHome

(***************************************************************************)
(* C28: with the changer answering every earlier command as the library    *)
(* stood, each cleaning unload targets a drive that holds the chosen       *)
(* cleaning tape at that moment, with the destination slot empty, and the  *)
(* cleaning load takes the tape from a slot that holds it into an empty    *)
(* drive.                                                                  *)
(***************************************************************************)
C28_CleaningCommandsValid ==
    \A j \in TraceIdx :
        (IsLoadUnload(trace[j]) /\ trace[j].cln /\ \A i \in 1..(j-1) : Answered(i)) =>
            LET lib == LibraryAfter(j - 1)
                e   == trace[j]
            IN  IF e.op = "load"
                THEN lib.s[e.slot] = cln_tuple[1] /\ lib.d[e.idx] = 0
                ELSE lib.d[e.idx] = cln_tuple[1] /\ lib.s[e.slot] = 0

\* C28 for the cycles that chose a tape the listing shows in a slot and issued no
\* relocating unload
C28_TapeInSlot ==
    (cln_tuple # <<>> /\ ((\E d \in Drives : ChosenInDrive(d)) \/ Relocating))
    \/ C28_CleaningCommandsValid

(***************************************************************************)
(* C29: every run ends, provided each external command returns; the        *)
(* readiness loop makes at most load_wait + 1 iterations, an unload run    *)
(* issues at most four changer load/unload commands (the requested unload, *)
(* one relocating unload, one cleaning load, one cleaning unload, nested   *)
(* in that order) and a load run at most one.                              *)
(***************************************************************************)
Moves == {j \in TraceIdx : IsLoadUnload(trace[j])}

C29_Bounds ==
    /\ Cardinality(Polls) <= load_wait + 1
    /\ pc = "poll" => s <= load_wait
    /\ mtx_cmd = "load" => Cardinality(Moves) <= 1
    /\ mtx_cmd = "unload" =>
          /\ Cardinality(Moves) <= 4
          /\ Cardinality({j \in Moves : IsReqUnload(trace[j])}) <= 1
          /\ Cardinality({j \in Moves : IsRelocUnload(j)}) <= 1
          /\ Cardinality({j \in Moves : trace[j].op = "load"}) <= 1
          /\ \A i, j \in Moves :
                (i < j /\ trace[i].cln) => trace[j].cln
          /\ \A i, j \in Moves :
                (i < j /\ trace[i].op = "load") => j = Len(trace) /\ trace[j].op = "unload"

C29_Terminates == <>(pc = "done") /\ []C29_Bounds

\* an unload run that issued all four changer commands and ended
C29_Witness ==
    /\ mtx_cmd = "unload" /\ pc = "done"
    /\ Cardinality(Moves) = 4

(***************************************************************************)
(* C30: list, listall, loaded and slots issue no external command other    *)
(* than mtx status and mtx inventory, and mtx inventory only when          *)
(* inventory is set.                                                       *)
(***************************************************************************)
IsQuery(cmd) == cmd \in {"list", "listall", "loaded", "slots"}

C30_QueriesOnlyRead ==
    IsQuery(mtx_cmd) =>
        /\ pc \in {"start", "inventory", "status", "done"}
        /\ pc = "inventory" => inventory
        /\ \A j \in TraceIdx :
              /\ trace[j].tool = "mtx" /\ trace[j].op \in {"status", "inventory"}
              /\ trace[j].op = "inventory" => inventory

\* loaded with inventory set: inventory, the dump for the volume, do_loaded's dump
C30_Witness ==
    /\ mtx_cmd = "loaded" /\ inventory /\ pc = "done" /\ exit_code = 0
    /\ Len(trace) = 3 /\ IsMtx(trace[1], "inventory")
    /\ IsMtx(trace[2], "status") /\ IsMtx(trace[3], "status")

(***************************************************************************)
(* C31: with offline set, every mtx unload is directly preceded by an      *)
(* mt offline addressed to the device of the drive the unload empties,     *)
(* then the offline_sleep delay when it is not 0; with offline unset no    *)
(* mt offline is ever issued.                                              *)
(***************************************************************************)
IsOffline(e) == e.tool = "mt" /\ e.op = "offline"

\* the device the offline before unload j must name: a device path, and the
\* requested drive_device when the unload empties the requested drive
NamesDriveOf(o, j) ==
    /\ trace[o].dev # ""
    /\ trace[j].idx = drive_index => trace[o].dev = drive_device

\* unload j is preceded by the offline command and the delay
OfflineBefore(j) ==
    IF offline_sleep # 0
    THEN /\ j > 2 /\ trace[j-1] = Sleep("offline_sleep", offline_sleep)
         /\ IsOffline(trace[j-2]) /\ NamesDriveOf(j-2, j)
    ELSE /\ j > 1 /\ IsOffline(trace[j-1]) /\ NamesDriveOf(j-1, j)

C31_OfflineBeforeUnload ==
    /\ offline => \A j \in TraceIdx : IsMtx(trace[j], "unload") => OfflineBefore(j)
    /\ ~offline => \A j \in TraceIdx : ~IsOffline(trace[j])

\* C31 for the requested unload and the unload after the clean wait
C31_ExceptRelocation ==
    /\ offline => \A j \in TraceIdx :
                     (IsMtx(trace[j], "unload") /\ ~IsRelocUnload(j)) => OfflineBefore(j)
    /\ ~offline => \A j \in TraceIdx : ~IsOffline(trace[j])

====
